---- MODULE Spec2Model ----
(***************************************************************************)
(* A model of the help-desk toolkit (helpdesk.py): the run of main(), the  *)
(* rule engine suggest_actions(), the interactive gate interactive_fix()   *)
(* with confirm(), and the three action executors kill_process(),          *)
(* clean_user_temp() and stop_onedrive_processes().                        *)
(*                                                                         *)
(* Text typed by the user is a sequence of one-character strings, so that  *)
(* strip(), lower(), startswith() and int() are computed as Python         *)
(* computes them.  A Python value that may be None is a sequence of length *)
(* 0 (None) or 1 (the value).                                              *)
(***************************************************************************)
EXTENDS Integers, Sequences, FiniteSets, TLC

VARIABLES
    psutil,       \* TRUE when the psutil import succeeded (helpdesk.py:35-38)
    args,         \* the parsed command line: [fix, top_processes]
    procs,        \* the live process table, in the provider's order
    files,        \* the files of the user's temp area
    pc,           \* the position of the run
    report,       \* the report built by run_checks
    suggestions,  \* the list returned by suggest_actions
    choice,       \* the menu number parsed in interactive_fix (None before)
    action,       \* the suggestion picked in interactive_fix (None before)
    pid,          \* the pid handed to kill_process (None before)
    days,         \* the age threshold handed to clean_user_temp (None before)
    menuLine,     \* the line read at the menu prompt (None before)
    answers,      \* the lines confirm() has read in this run, in order
    confirmed,    \* the action code whose confirm() returned True ("" before)
    calls,        \* the executor calls made so far, in order
    log,          \* the steps taken so far, in order
    outcome,      \* what the executor returned (None before)
    entry,        \* the process table and temp area the executor was called on
    prev,         \* the executor call before this one: its argument, entry, outcome
    saved,        \* the report handed to save_report (None before)
    exitStatus    \* the exit status of the process (None while running)

vars == <<psutil, args, procs, files, pc, report, suggestions, menuLine, choice,
          action, pid, days, answers, confirmed, calls, log, outcome, entry, prev,
          saved, exitStatus>>

(***************************************************************************)
(* Optional values and text.                                               *)
(***************************************************************************)
None == <<>>
Some(v) == <<v>>
Get(o) == o[1]

UpperChars == <<"A","B","C","D","E","F","G","H","I","J","K","L","M",
                "N","O","P","Q","R","S","T","U","V","W","X","Y","Z">>
LowerChars == <<"a","b","c","d","e","f","g","h","i","j","k","l","m",
                "n","o","p","q","r","s","t","u","v","w","x","y","z">>
DigitChars == <<"0","1","2","3","4","5","6","7","8","9">>

\* str.lower() on one character
LowerChar(c) ==
    IF \E i \in 1..Len(UpperChars) : UpperChars[i] = c
    THEN LowerChars[CHOOSE i \in 1..Len(UpperChars) : UpperChars[i] = c]
    ELSE c

\* str.lower()
Lower(s) == [i \in 1..Len(s) |-> LowerChar(s[i])]

IsSpace(c) == c \in {" ", "\t", "\n"}

RECURSIVE LStrip(_)
LStrip(s) == IF s # <<>> /\ IsSpace(Head(s)) THEN LStrip(Tail(s)) ELSE s

RECURSIVE RStrip(_)
RStrip(s) ==
    IF s # <<>> /\ IsSpace(s[Len(s)]) THEN RStrip(SubSeq(s, 1, Len(s) - 1)) ELSE s

\* str.strip()
Strip(s) == RStrip(LStrip(s))

\* str.startswith(prefix)
StartsWith(s, prefix) ==
    /\ Len(s) >= Len(prefix)
    /\ SubSeq(s, 1, Len(prefix)) = prefix

IsDigit(c) == \E i \in 1..Len(DigitChars) : DigitChars[i] = c
DigitVal(c) == (CHOOSE i \in 1..Len(DigitChars) : DigitChars[i] = c) - 1

RECURSIVE DigitsVal(_)
DigitsVal(s) ==
    IF s = <<>> THEN 0
    ELSE DigitsVal(SubSeq(s, 1, Len(s) - 1)) * 10 + DigitVal(s[Len(s)])

\* the digits of an int literal once the blanks and the sign are taken off
IntBody(s) ==
    LET t == Strip(s)
    IN  IF t # <<>> /\ Head(t) \in {"+", "-"} THEN Tail(t) ELSE t

\* int(s) does not raise ValueError
IsInt(s) ==
    /\ IntBody(s) # <<>>
    /\ \A i \in 1..Len(IntBody(s)) : IsDigit(IntBody(s)[i])

\* int(s), for a text that int() accepts
IntOf(s) ==
    LET t == Strip(s)
    IN  IF Head(t) = "-" THEN 0 - DigitsVal(IntBody(s)) ELSE DigitsVal(IntBody(s))

\* x or default, for a text x
OrText(s, default) == IF s = <<>> THEN default ELSE s

(***************************************************************************)
(* Bounds of the model and the program's constants.                        *)
(***************************************************************************)
MaxProcs == 3            \* pids are 1..MaxProcs
MaxAsk == 2              \* answers confirm() reads before the model stops asking
MEM_THRESHOLD == 80      \* memory percent above which memory is high
DISK_THRESHOLD == 90     \* disk percent above which a disk is high
TOP_SUGGESTED == 3       \* how many top processes get a terminate suggestion
DEFAULT_DAYS == 3        \* the default age threshold of clean_temp
SECONDS_PER_DAY == 86400

Pids == 1..MaxProcs

\* dict.get(key) of a dict whose values are optional already
EGet(d, k) == IF k \in DOMAIN d THEN d[k] ELSE None

\* dict.get(key) of a dict of plain values
DGet(d, k) == IF k \in DOMAIN d THEN Some(d[k]) ELSE None

\* the empty dict, the default of report.get(section, {})
EmptyDict == [x \in {} |-> None]

\* report.get(section, default)
RGet(r, k, default) == IF k \in DOMAIN r THEN r[k] ELSE default

(***************************************************************************)
(* Process names.                                                          *)
(***************************************************************************)
N_chrome == <<"c","h","r","o","m","e">>
N_OneDrive_exe == <<"O","n","e","D","r","i","v","e",".","e","x","e">>
N_explorer == <<"e","x","p","l","o","r","e","r">>
N_ONEDRIVE == <<"O","N","E","D","R","I","V","E">>
N_OneNote == <<"O","n","e","N","o","t","e">>
N_onedrive == <<"o","n","e","d","r","i","v","e">>

\* the names a process may carry; None is a process whose name is not readable
ProcNames == {Some(N_chrome), Some(N_OneDrive_exe), Some(N_explorer),
              Some(N_ONEDRIVE), Some(N_OneNote), None}

\* the resident sizes a process may report; None is an unreadable memory_info
RssVals == {None, Some(0), Some(100), Some(300), Some(500)}

\* the table of the run of main: pid i carries the i-th name and size, cyclically
NameCatalogue == <<Some(N_chrome), Some(N_OneDrive_exe), Some(N_explorer),
                   Some(N_ONEDRIVE), None>>
RssCatalogue == <<Some(500), Some(300), Some(100), None, Some(300)>>

CatalogueProc(i) ==
    [pid |-> i,
     name |-> NameCatalogue[((i - 1) % Len(NameCatalogue)) + 1],
     rss |-> RssCatalogue[((i - 1) % Len(RssCatalogue)) + 1]]

\* the members of a set of pids as a sequence in increasing order, which is the
\* order in which psutil.process_iter yields them
RECURSIVE SeqOfPids(_)
SeqOfPids(S) ==
    IF S = {} THEN <<>>
    ELSE LET m == CHOOSE x \in S : \A y \in S : x <= y
         IN  <<m>> \o SeqOfPids(S \ {m})

LivePids == {procs[i].pid : i \in 1..Len(procs)}
Without(p) == SelectSeq(procs, LAMBDA q : q.pid # p)

(***************************************************************************)
(* top_processes (helpdesk.py:133-152)                                     *)
(***************************************************************************)
\* the key of the sort: x.get('memory_rss') or 0
SortKey(e) == IF EGet(e, "memory_rss") = None THEN 0 ELSE Get(e.memory_rss)

\* x put into a list sorted largest first, behind every entry whose key is not
\* smaller: sorted(..., reverse=True) keeps the order of equal keys
InsertDesc(x, s) ==
    LET smaller == {i \in 1..Len(s) : SortKey(s[i]) < SortKey(x)}
        at == IF smaller = {} THEN Len(s) + 1
              ELSE CHOOSE i \in smaller : \A j \in smaller : i <= j
    IN  SubSeq(s, 1, at - 1) \o <<x>> \o SubSeq(s, at, Len(s))

RECURSIVE SortedDesc(_)
SortedDesc(s) ==
    IF s = <<>> THEN <<>>
    ELSE InsertDesc(s[Len(s)], SortedDesc(SubSeq(s, 1, Len(s) - 1)))

\* s[:n]
Slice(s, n) ==
    IF n >= 0 THEN SubSeq(s, 1, IF n < Len(s) THEN n ELSE Len(s))
    ELSE SubSeq(s, 1, IF Len(s) + n > 0 THEN Len(s) + n ELSE 0)

ProcEntry(p) == [pid |-> Some(p.pid), name |-> p.name, memory_rss |-> p.rss]
ErrorEntry == [error |-> Some(TRUE)]

\* a top_processes that forgets to sort
top_processes_unsorted(table, n, fails) ==
    IF fails THEN <<ErrorEntry>>
    ELSE Slice([i \in 1..Len(table) |-> ProcEntry(table[i])], n)

\* fails: process_iter raised, and the except branch returns the error entry
top_processes(table, n, fails) ==
    IF fails THEN <<ErrorEntry>>
    ELSE Slice(SortedDesc([i \in 1..Len(table) |-> ProcEntry(table[i])]), n)

(***************************************************************************)
(* run_checks (helpdesk.py:165-183)                                        *)
(***************************************************************************)
ProviderError == [error |-> TRUE]

run_checks(installed, a, table, mem, disks, fails) ==
    IF ~installed THEN ProviderError
    ELSE [memory |-> mem,
          disks |-> disks,
          top_processes |-> top_processes(table, a.top_processes, fails)]

(***************************************************************************)
(* suggest_actions (helpdesk.py:227-285)                                   *)
(***************************************************************************)
KillSuggestion(p) ==
    [code |-> "kill_process",
     text |-> [name |-> EGet(p, "name"), pid |-> EGet(p, "pid")],
     data |-> EGet(p, "pid")]
CleanSuggestion ==
    [code |-> "clean_temp", text |-> [name |-> None, pid |-> None], data |-> None]
StopSuggestion ==
    [code |-> "stop_onedrive", text |-> [name |-> None, pid |-> None], data |-> None]

\* lines 232-248
MemorySuggestions(r) ==
    LET mem_pct == DGet(RGet(r, "memory", EmptyDict), "percent")
        top == Slice(RGet(r, "top_processes", <<>>), TOP_SUGGESTED)
    IN  IF mem_pct # None /\ Get(mem_pct) > MEM_THRESHOLD
        THEN [i \in 1..Len(top) |-> KillSuggestion(top[i])]
        ELSE <<>>

\* lines 258-268
DiskSuggestions(r) ==
    LET disks == RGet(r, "disks", <<>>)
        high == {i \in 1..Len(disks) :
                    /\ DGet(disks[i], "percent") # None
                    /\ disks[i].percent # 0
                    /\ disks[i].percent > DISK_THRESHOLD}
    IN  IF high # {} THEN <<CleanSuggestion>> ELSE <<>>

\* (p.get("name") or "").lower().startswith("onedrive")
IsOneDrive(name) ==
    StartsWith(Lower(IF name = None THEN <<>> ELSE Get(name)), N_onedrive)

\* lines 271-274
OneDriveSuggestions(r) ==
    LET top == RGet(r, "top_processes", <<>>)
    IN  IF \E i \in 1..Len(top) : IsOneDrive(EGet(top[i], "name"))
        THEN <<StopSuggestion>> ELSE <<>>

suggest_actions(r) ==
    MemorySuggestions(r) \o DiskSuggestions(r) \o OneDriveSuggestions(r)

(***************************************************************************)
(* What the environment and the user may supply.                           *)
(***************************************************************************)
\* --top-processes: the default 5, and a count below the three suggested
TopCounts == {2, 5}

\* memory_info(): a reading, or the error dict of its except branch
MemReadings == {[percent |-> 80], [percent |-> 95], [error |-> TRUE]}

\* disk_info(): a list of partitions, some of them unreadable
DiskReadings == {<<[percent |-> 90]>>,
                 <<[error |-> TRUE], [percent |-> 95]>>,
                 <<[percent |-> 95], [percent |-> 91]>>}

\* lines typed at "Choose an action number to run (0 to exit): "
MenuInputs == {<<"0">>, <<"1">>, <<"2">>, <<"3">>, <<"4">>, <<"5">>, <<"6">>,
               <<"1","0">>, <<"-","1">>, <<" ","2"," ">>, <<"1",".","5">>,
               <<"a","b","c">>, <<>>, <<" ">>}

\* lines typed at a "[y/N]: " prompt
ConfirmInputs == {<<"y">>, <<"Y"," ">>, <<"n">>, <<"N">>, <<>>,
                  <<"m","a","y","b","e">>}

\* lines typed at "Enter PID to terminate: "
PidInputs == {<<"1">>, <<" ","2">>, <<"9">>, <<"x">>, <<>>}

\* lines typed at "Delete files older than how many days? (default 3): "
DaysInputs == {<<>>, <<"0">>, <<"3">>, <<"x">>, <<"-","1">>}

(***************************************************************************)
(* The user's temp area.  A file is [id, mtime, size]; NOW is time.time()  *)
(* at the call of clean_user_temp.                                         *)
(***************************************************************************)
MaxFiles == 4
NOW == 10 * SECONDS_PER_DAY

MtimeCatalogue == <<NOW - 4 * SECONDS_PER_DAY,   \* older than three days
                    NOW - 1,                     \* just older than now
                    NOW - 3 * SECONDS_PER_DAY,   \* three days old to the second
                    NOW,                         \* written this second
                    NOW + 60>>                   \* stamped in the future
SizeCatalogue == <<10, 5, 20, 7, 3>>

CatalogueFile(i) ==
    [id |-> i,
     mtime |-> MtimeCatalogue[((i - 1) % Len(MtimeCatalogue)) + 1],
     size |-> SizeCatalogue[((i - 1) % Len(SizeCatalogue)) + 1]]

AllFiles == {CatalogueFile(i) : i \in 1..MaxFiles}

\* the temp area of the run of main: one file to remove and one to keep at the
\* default threshold
RunFiles == {CatalogueFile(1), CatalogueFile(2)}

RECURSIVE TotalSize(_)
TotalSize(S) ==
    IF S = {} THEN 0
    ELSE LET f == CHOOSE x \in S : TRUE IN f.size + TotalSize(S \ {f})

(***************************************************************************)
(* The state of a run before main() starts.                                *)
(***************************************************************************)
RunFresh ==
    /\ report = EmptyDict
    /\ suggestions = <<>>
    /\ menuLine = None
    /\ choice = None
    /\ action = None
    /\ pid = None
    /\ days = None
    /\ answers = <<>>
    /\ confirmed = ""
    /\ calls = <<>>
    /\ log = <<>>
    /\ outcome = None
    /\ entry = None
    /\ prev = None
    /\ saved = None
    /\ exitStatus = None

RunInit == pc = "start" /\ RunFresh

TableOf(alive) ==
    [i \in 1..Cardinality(alive) |-> CatalogueProc(SeqOfPids(alive)[i])]

Init ==
    /\ psutil \in BOOLEAN
    /\ args \in [fix : BOOLEAN, top_processes : TopCounts]
    /\ \E alive \in SUBSET Pids : procs = TableOf(alive)
    /\ files = RunFiles
    /\ RunInit

Step(name) == log' = Append(log, name)

(***************************************************************************)
(* main (helpdesk.py:448-471)                                              *)
(***************************************************************************)
\* line 458: report = run_checks(args)
RunChecks ==
    /\ pc = "start"
    /\ \E mem \in MemReadings, disks \in DiskReadings, fails \in BOOLEAN :
          report' = run_checks(psutil, args, procs, mem, disks, fails)
    /\ pc' = "summary"
    /\ Step("run_checks")
    /\ UNCHANGED <<psutil, args, procs, files, suggestions, menuLine, choice,
                   action, pid, days, answers, confirmed, calls, outcome,
                   saved, exitStatus, entry, prev>>

\* line 461: pretty_print_summary(report)
PrettyPrintSummary ==
    /\ pc = "summary"
    /\ pc' = "suggest"
    /\ Step("pretty_print_summary")
    /\ UNCHANGED <<psutil, args, procs, files, report, suggestions, menuLine,
                   choice, action, pid, days, answers, confirmed, calls,
                   outcome, saved, exitStatus, entry, prev>>

\* line 464: suggestions = suggest_actions(report)
SuggestActions ==
    /\ pc = "suggest"
    /\ suggestions' = suggest_actions(report)
    /\ pc' = "save"
    /\ Step("suggest_actions")
    /\ UNCHANGED <<psutil, args, procs, files, report, menuLine, choice,
                   action, pid, days, answers, confirmed, calls, outcome,
                   saved, exitStatus, entry, prev>>

\* line 467: save_report(report, args.report)
SaveReport ==
    /\ pc = "save"
    /\ saved' = Some(report)
    /\ pc' = "fix"
    /\ Step("save_report")
    /\ UNCHANGED <<psutil, args, procs, files, report, suggestions, menuLine,
                   choice, action, pid, days, answers, confirmed, calls,
                   outcome, exitStatus, entry, prev>>

\* a main that opens the fix menu whether or not --fix was given
FixRequested_always == TRUE

\* line 470: if args.fix
FixRequested == args.fix

\* lines 470-471 without --fix: main returns
NoFix ==
    /\ pc = "fix"
    /\ ~FixRequested
    /\ pc' = "return"
    /\ UNCHANGED <<psutil, args, procs, files, report, suggestions, menuLine,
                   choice, action, pid, days, answers, confirmed, calls, log,
                   outcome, saved, exitStatus, entry, prev>>

\* main has returned: the interpreter exits with status 0
Return ==
    /\ pc = "return"
    /\ pc' = "exited"
    /\ exitStatus' = Some(0)
    /\ UNCHANGED <<psutil, args, procs, files, report, suggestions, menuLine,
                   choice, action, pid, days, answers, confirmed, calls, log,
                   outcome, saved, entry, prev>>

(***************************************************************************)
(* confirm (helpdesk.py:292-298): what one typed line makes of the loop    *)
(***************************************************************************)
\* a confirm() that takes every answer but "n" and the blank line for a yes
confirm_lenient(line) ==
    LET ans == Lower(Strip(line))
    IN  IF ans = <<"n">> \/ ans = <<>> THEN "False" ELSE "True"

confirm(line) ==
    LET ans == Lower(Strip(line))
    IN  IF ans = <<"y">> THEN "True"
        ELSE IF ans = <<"n">> \/ ans = <<>> THEN "False"
        ELSE "ask_again"

(***************************************************************************)
(* interactive_fix (helpdesk.py:366-439)                                   *)
(***************************************************************************)
\* a menu whose blank line counts as the first suggestion
MenuDefault_first == <<"1">>

\* line 380: a blank line counts as "0"
MenuDefault == <<"0">>

\* line 388: 1 <= choice <= len(suggestions)
InRange(c, n) == 1 <= c /\ c <= n

\* a pid as kill_process receives it: the suggestion's number, or the typed text
BoundPid(n) == [typed |-> FALSE, num |-> n, text |-> <<>>]
TypedPid(t) == [typed |-> TRUE, num |-> 0, text |-> t]

\* an interactive_fix that asks for a pid whatever the suggestion carries
AfterPick_always_asks(s) ==
    IF s.code = "kill_process" THEN "pid_prompt"
    ELSE IF s.code = "clean_temp" THEN "days_prompt"
    ELSE "confirm"

\* where interactive_fix goes once a suggestion is picked (lines 396-425)
AfterPick(s) ==
    IF s.code = "kill_process"
    THEN IF s.data = None THEN "pid_prompt" ELSE "confirm"
    ELSE IF s.code = "clean_temp" THEN "days_prompt"
    ELSE "confirm"

\* the executor behind an action code (lines 405, 419, 428)
ExecutorOf(code) ==
    IF code = "kill_process" THEN "kill_process"
    ELSE IF code = "clean_temp" THEN "clean_user_temp"
    ELSE "stop_onedrive_processes"

\* an interactive_fix that shows the menu again once an action has run
AfterAction_menu_again == "fix"

\* where interactive_fix goes once the executor has returned: it returns
AfterAction == "return"

\* lines 367-369: nothing to offer
FixNothing ==
    /\ pc = "fix"
    /\ FixRequested
    /\ suggestions = <<>>
    /\ pc' = "return"
    /\ Step("interactive_fix")
    /\ UNCHANGED <<psutil, args, procs, files, report, suggestions, menuLine,
                   choice, action, pid, days, answers, confirmed, calls,
                   outcome, saved, exitStatus, entry, prev>>

\* lines 371-401: the menu is printed, one line is read, and the pick is made
Menu ==
    /\ pc = "fix"
    /\ FixRequested
    /\ suggestions # <<>>
    /\ \E line \in MenuInputs :
          LET t == OrText(Strip(line), MenuDefault)
          IN  /\ menuLine' = Some(line)
              /\ IF ~IsInt(t)
                 THEN /\ pc' = "return"
                      /\ UNCHANGED <<choice, action, pid>>
                 ELSE /\ choice' = Some(IntOf(t))
                      /\ IF IntOf(t) # 0 /\ InRange(IntOf(t), Len(suggestions))
                         THEN LET s == suggestions[IntOf(t)]
                              IN  /\ action' = Some(s)
                                  /\ pid' = IF s.code = "kill_process" /\ s.data # None
                                            THEN Some(BoundPid(Get(s.data)))
                                            ELSE pid
                                  /\ pc' = AfterPick(s)
                         ELSE /\ pc' = "return"
                              /\ UNCHANGED <<action, pid>>
    /\ Step("menu")
    /\ UNCHANGED <<psutil, args, procs, files, report, suggestions, days,
                   answers, confirmed, calls, outcome, saved, exitStatus,
                   entry, prev>>

\* line 399: pid = input("Enter PID to terminate: ").strip()
PidPrompt ==
    /\ pc = "pid_prompt"
    /\ \E line \in PidInputs : pid' = Some(TypedPid(Strip(line)))
    /\ pc' = "confirm"
    /\ Step("pid_prompt")
    /\ UNCHANGED <<psutil, args, procs, files, report, suggestions, menuLine,
                   choice, action, days, answers, confirmed, calls, outcome,
                   saved, exitStatus, entry, prev>>

\* lines 412-416: the age threshold, 3 when blank or not a number
DaysPrompt ==
    /\ pc = "days_prompt"
    /\ \E line \in DaysInputs :
          LET days_str == OrText(Strip(line), <<"3">>)
          IN  days' = Some(IF IsInt(days_str) THEN IntOf(days_str) ELSE DEFAULT_DAYS)
    /\ pc' = "confirm"
    /\ Step("days_prompt")
    /\ UNCHANGED <<psutil, args, procs, files, report, suggestions, menuLine,
                   choice, action, pid, answers, confirmed, calls, outcome,
                   saved, exitStatus, entry, prev>>

\* lines 404, 418, 427: one line read by confirm(); on True the executor is next
Confirm ==
    /\ pc = "confirm"
    /\ \E line \in ConfirmInputs :
          /\ confirm(line) = "ask_again" => Len(answers) < MaxAsk
          /\ answers' = Append(answers, line)
          /\ IF confirm(line) = "True"
             THEN /\ confirmed' = Get(action).code
                  /\ pc' = ExecutorOf(Get(action).code)
             ELSE /\ UNCHANGED confirmed
                  /\ pc' = IF confirm(line) = "False" THEN "return" ELSE "confirm"
    /\ Step("confirm")
    /\ UNCHANGED <<psutil, args, procs, files, report, suggestions, menuLine,
                   choice, action, pid, days, calls, outcome, saved,
                   exitStatus, entry, prev>>

(***************************************************************************)
(* kill_process (helpdesk.py:301-323), one step per call into psutil.  The *)
(* process decides how each call ends: the signal is delivered or refused, *)
(* the process exits within the wait or not, or it is gone already.        *)
(***************************************************************************)
\* what an executor finds when it is called; failing are the files of the temp
\* area that cannot be read or removed during the call
Entry(failing) == [procs |-> procs, files |-> files, failing |-> failing]

\* int(pid) raises ValueError
PidIsBad(p) == p.typed /\ ~IsInt(p.text)

\* int(pid)
PidNumber(p) == IF p.typed THEN IntOf(p.text) ELSE p.num

KillOutcome(ok, kind) ==
    [action |-> "kill_process", ok |-> ok, kind |-> kind]

\* how p.terminate() and p.kill() may end
SignalResults == {"sent", "AccessDenied", "NoSuchProcess"}
\* how p.wait(timeout) may end
WaitResults == {"exited", "TimeoutExpired"}

\* a handler whose first except clause names NoSuchProcess alone
ExceptBranch_no_value_error(exc) ==
    IF exc = "NoSuchProcess" THEN "not_found"
    ELSE IF exc = "AccessDenied" THEN "access_denied"
    ELSE "error"

\* the except clause an exception ends in (lines 317-323)
ExceptBranch(exc) ==
    IF exc \in {"NoSuchProcess", "ValueError"} THEN "not_found"
    ELSE IF exc = "AccessDenied" THEN "access_denied"
    ELSE "error"

\* a kill_process that reports both tiers with the same word
TierName_same(forced) == "terminated"

\* the tier the success message names (lines 310 and 316)
TierName(forced) == IF forced THEN "killed" ELSE "terminated"

\* lines 303-305: psutil.Process(int(pid)) and p.name()
KillLookup ==
    /\ pc = "kill_process"
    /\ calls' = Append(calls, "kill_process")
    /\ entry' = Some(Entry({}))
    /\ IF PidIsBad(Get(pid)) \/ PidNumber(Get(pid)) \notin LivePids
       THEN /\ outcome' = Some(KillOutcome(FALSE, ExceptBranch(
                                IF PidIsBad(Get(pid)) THEN "ValueError"
                                ELSE "NoSuchProcess")))
            /\ pc' = "kill_return"
       ELSE /\ UNCHANGED outcome
            /\ pc' = "kill_terminate"
    /\ Step("kill_process")
    /\ UNCHANGED <<psutil, args, procs, files, report, suggestions, menuLine,
                   choice, action, pid, days, answers, confirmed, saved,
                   exitStatus, prev>>

\* line 306: p.terminate()
KillTerminate ==
    /\ pc = "kill_terminate"
    /\ \E r \in SignalResults :
          IF r = "sent"
          THEN /\ pc' = "kill_wait"
               /\ Step("terminate")
               /\ UNCHANGED <<outcome, procs>>
          ELSE /\ pc' = "kill_return"
               /\ outcome' = Some(KillOutcome(FALSE, ExceptBranch(r)))
               /\ procs' = IF r = "NoSuchProcess"
                           THEN Without(PidNumber(Get(pid))) ELSE procs
               /\ Step(r)
    /\ UNCHANGED <<psutil, args, files, report, suggestions, menuLine, choice,
                   action, pid, days, answers, confirmed, calls, saved,
                   exitStatus, entry, prev>>

\* lines 307-311: p.wait(timeout=5)
KillWait ==
    /\ pc = "kill_wait"
    /\ \E r \in WaitResults :
          IF r = "exited"
          THEN /\ pc' = "kill_return"
               /\ outcome' = Some(KillOutcome(TRUE, TierName(FALSE)))
               /\ procs' = Without(PidNumber(Get(pid)))
               /\ Step("exited")
          ELSE /\ pc' = "kill_force"
               /\ Step("TimeoutExpired")
               /\ UNCHANGED <<outcome, procs>>
    /\ UNCHANGED <<psutil, args, files, report, suggestions, menuLine, choice,
                   action, pid, days, answers, confirmed, calls, saved,
                   exitStatus, entry, prev>>

\* line 313: p.kill()
KillForce ==
    /\ pc = "kill_force"
    /\ \E r \in SignalResults :
          IF r = "sent"
          THEN /\ pc' = "kill_wait_forced"
               /\ Step("kill")
               /\ UNCHANGED <<outcome, procs>>
          ELSE /\ pc' = "kill_return"
               /\ outcome' = Some(KillOutcome(FALSE, ExceptBranch(r)))
               /\ procs' = IF r = "NoSuchProcess"
                           THEN Without(PidNumber(Get(pid))) ELSE procs
               /\ Step(r)
    /\ UNCHANGED <<psutil, args, files, report, suggestions, menuLine, choice,
                   action, pid, days, answers, confirmed, calls, saved,
                   exitStatus, entry, prev>>

\* lines 314-316 and 322-323: p.wait(timeout=3); its timeout is the last except
KillWaitForced ==
    /\ pc = "kill_wait_forced"
    /\ \E r \in WaitResults :
          IF r = "exited"
          THEN /\ outcome' = Some(KillOutcome(TRUE, TierName(TRUE)))
               /\ procs' = Without(PidNumber(Get(pid)))
               /\ Step("exited")
          ELSE /\ outcome' = Some(KillOutcome(FALSE, ExceptBranch(r)))
               /\ Step(r)
               /\ UNCHANGED procs
    /\ pc' = "kill_return"
    /\ UNCHANGED <<psutil, args, files, report, suggestions, menuLine, choice,
                   action, pid, days, answers, confirmed, calls, saved,
                   exitStatus, entry, prev>>

\* lines 405-406: ok, msg = kill_process(pid); print(msg)
KillReturn ==
    /\ pc = "kill_return"
    /\ pc' = AfterAction
    /\ UNCHANGED <<psutil, args, procs, files, report, suggestions, menuLine,
                   choice, action, pid, days, answers, confirmed, calls, log,
                   outcome, saved, exitStatus, entry, prev>>

(***************************************************************************)
(* clean_user_temp (helpdesk.py:327-348)                                   *)
(***************************************************************************)
\* a cutoff that takes the default threshold whatever it is given
Cutoff_ignores_days(older_than_days) == NOW - (DEFAULT_DAYS * SECONDS_PER_DAY)

\* line 332
Cutoff(older_than_days) == NOW - (older_than_days * SECONDS_PER_DAY)

\* line 340: mtime < cutoff
IsOld(f, older_than_days) == f.mtime < Cutoff(older_than_days)

\* the files the walk removes; failing are the files on which getmtime, getsize
\* or remove raises, which the except branch passes over
Removed(area, older_than_days, failing) ==
    {f \in area : IsOld(f, older_than_days) /\ f \notin failing}

\* a walk that counts a file before it removes it: a file that cannot be
\* removed is counted all the same
clean_user_temp_counts_first(area, older_than_days, failing) ==
    LET gone == Removed(area, older_than_days, failing)
        tried == {f \in area : IsOld(f, older_than_days)}
    IN  [action |-> "clean_user_temp",
         deleted_files |-> Cardinality(tried),
         deleted_bytes |-> TotalSize(tried),
         left |-> area \ gone]

clean_user_temp(area, older_than_days, failing) ==
    LET gone == Removed(area, older_than_days, failing)
    IN  [action |-> "clean_user_temp",
         deleted_files |-> Cardinality(gone),
         deleted_bytes |-> TotalSize(gone),
         left |-> area \ gone]

\* lines 419-420
CleanUserTemp ==
    /\ pc = "clean_user_temp"
    /\ calls' = Append(calls, "clean_user_temp")
    /\ \E failing \in SUBSET files :
          LET res == clean_user_temp(files, Get(days), failing)
          IN  /\ outcome' = Some(res)
              /\ files' = res.left
              /\ entry' = Some(Entry(failing))
    /\ pc' = AfterAction
    /\ Step("clean_user_temp")
    /\ UNCHANGED <<psutil, args, procs, report, suggestions, menuLine, choice,
                   action, pid, days, answers, confirmed, saved, exitStatus,
                   prev>>

(***************************************************************************)
(* stop_onedrive_processes (helpdesk.py:351-363)                           *)
(***************************************************************************)
\* how the try block of one matching process may end: both calls return, or
\* terminate() raises, or wait(timeout=5) raises
StopResults == {"stopped", "AccessDenied", "NoSuchProcess", "TimeoutExpired"}

\* lines 355-356
Matches(p) == IsOneDrive(p.name)

MatchingPids(table) == {table[i].pid : i \in {j \in 1..Len(table) : Matches(table[j])}}

\* the processes the loop body sends a request to, in the order of the walk
Attempted(table) == SelectSeq(table, Matches)

\* a loop whose try block is around the loop: the first failure ends the walk
stop_onedrive_processes_aborting(table, res) ==
    LET all == Attempted(table)
        bads == {i \in 1..Len(all) : res[all[i].pid] # "stopped"}
        last == IF bads = {} THEN Len(all)
                ELSE CHOOSE i \in bads : \A j \in bads : i <= j
        tried == SubSeq(all, 1, last)
        ok == SelectSeq(tried, LAMBDA p : res[p.pid] = "stopped")
        bad == SelectSeq(tried, LAMBDA p : res[p.pid] # "stopped")
    IN  [action |-> "stop_onedrive_processes",
         stopped |-> [i \in 1..Len(ok) |-> <<ok[i].pid, ok[i].name>>],
         failed |-> [i \in 1..Len(bad) |-> <<bad[i].pid, res[bad[i].pid]>>],
         attempted |-> [i \in 1..Len(tried) |-> tried[i].pid],
         left |-> SelectSeq(table, LAMBDA p :
                     ~(\E i \in 1..Len(tried) :
                          /\ tried[i].pid = p.pid
                          /\ res[p.pid] \in {"stopped", "NoSuchProcess"}))]

\* res gives, for each matching pid, how its try block ends
stop_onedrive_processes(table, res) ==
    LET tried == Attempted(table)
        ok == SelectSeq(tried, LAMBDA p : res[p.pid] = "stopped")
        bad == SelectSeq(tried, LAMBDA p : res[p.pid] # "stopped")
    IN  [action |-> "stop_onedrive_processes",
         stopped |-> [i \in 1..Len(ok) |-> <<ok[i].pid, ok[i].name>>],
         failed |-> [i \in 1..Len(bad) |-> <<bad[i].pid, res[bad[i].pid]>>],
         attempted |-> [i \in 1..Len(tried) |-> tried[i].pid],
         left |-> SelectSeq(table, LAMBDA p :
                     ~(Matches(p) /\ res[p.pid] \in {"stopped", "NoSuchProcess"}))]

\* lines 429-434: what interactive_fix prints about the result
StopPrinted(stopped, failed) ==
    (IF stopped # <<>> THEN {"Stopped processes:"} ELSE {})
    \cup (IF failed # <<>> THEN {"Failed to stop:"} ELSE {})
    \cup (IF stopped = <<>> /\ failed = <<>> THEN {"No OneDrive processes found."}
          ELSE {})

\* lines 428-434
StopOneDrive ==
    /\ pc = "stop_onedrive_processes"
    /\ calls' = Append(calls, "stop_onedrive_processes")
    /\ \E res \in [MatchingPids(procs) -> StopResults] :
          LET r == stop_onedrive_processes(procs, res)
          IN  /\ outcome' = Some([action |-> r.action,
                                  stopped |-> r.stopped,
                                  failed |-> r.failed,
                                  attempted |-> r.attempted,
                                  printed |-> StopPrinted(r.stopped, r.failed)])
              /\ procs' = r.left
              /\ entry' = Some(Entry({}))
    /\ pc' = AfterAction
    /\ Step("stop_onedrive_processes")
    /\ UNCHANGED <<psutil, args, files, report, suggestions, menuLine, choice,
                   action, pid, days, answers, confirmed, saved, exitStatus,
                   prev>>

(***************************************************************************)
(* One run of the program.                                                 *)
(***************************************************************************)
Next ==
    \/ RunChecks
    \/ PrettyPrintSummary
    \/ SuggestActions
    \/ SaveReport
    \/ NoFix
    \/ FixNothing
    \/ Menu
    \/ PidPrompt
    \/ DaysPrompt
    \/ Confirm
    \/ KillLookup
    \/ KillTerminate
    \/ KillWait
    \/ KillForce
    \/ KillWaitForced
    \/ KillReturn
    \/ CleanUserTemp
    \/ StopOneDrive
    \/ Return

Spec == Init /\ [][Next]_vars

(***************************************************************************)
(* Properties of one run of the program (specification Spec).              *)
(***************************************************************************)
\* step a is taken before step b
Before(a, b) == \E i, j \in 1..Len(log) : i < j /\ log[i] = a /\ log[j] = b

Count(name) == Cardinality({i \in 1..Len(log) : log[i] = name})

Finished == pc \in {"return", "exited"}

\* the typed menu line names one of the n suggestions
PicksOneOf(line, n) ==
    IF IsInt(Strip(line)) THEN 1 <= IntOf(Strip(line)) /\ IntOf(Strip(line)) <= n
    ELSE FALSE

\* the typed answer is a yes once trimmed and lower-cased
SaysYes(line) == Lower(Strip(line)) = <<"y">>
\* the typed answer is a no once trimmed and lower-cased
SaysNo(line) == Lower(Strip(line)) \in {<<"n">>, <<>>}

\* C1: no executor is called in a run unless, earlier in that run, --fix was
\* given, the user typed a menu number between 1 and the number of suggestions,
\* and the user then answered yes at the confirmation prompt of that very action.
C1_TwoStepGate ==
    \A i \in 1..Len(calls) :
        /\ args.fix
        /\ menuLine # None
        /\ PicksOneOf(Get(menuLine), Len(suggestions))
        /\ calls[i] = ExecutorOf(suggestions[IntOf(Strip(Get(menuLine)))].code)
        /\ answers # <<>>
        /\ SaysYes(answers[Len(answers)])
        /\ Before("menu", "confirm")
        /\ Before("confirm", calls[i])

C1_Witness ==
    /\ pc = "exited"
    /\ calls = <<"kill_process">>
    /\ menuLine = Some(<<"2">>)
    /\ answers = <<<<"y">>>>

C3_InvalidChoiceReturns ==
    (menuLine # None /\ ~PicksOneOf(Get(menuLine), Len(suggestions))) =>
        /\ Finished
        /\ calls = <<>>
        /\ answers = <<>>
        /\ action = None
        /\ Count("menu") = 1
        /\ Count("confirm") + Count("pid_prompt") + Count("days_prompt") = 0

C3_Witness ==
    /\ pc = "exited"
    /\ Len(suggestions) = 4
    /\ menuLine = Some(<<"5">>)
    /\ calls = <<>>

\* C4: a run makes at most one executor call, whatever is typed and however
\* many suggestions are offered.
C4_AtMostOneCall == Len(calls) <= 1

C4_Witness ==
    /\ pc = "exited"
    /\ Len(calls) = 1
    /\ Len(suggestions) = 5

\* C10 as claimed: when run_checks returns the provider-error report the run
\* produces no suggestion and exits non-zero, and every other run exits 0.
C10_ExitStatus ==
    pc = "exited" =>
        IF report = ProviderError
        THEN suggestions = <<>> /\ exitStatus # Some(0)
        ELSE exitStatus = Some(0)

\* save_report is the last step of the run
SavedLast ==
    \A i \in 1..Len(log) : log[i] = "save_report" => i = Len(log)

\* the report handed to save_report carries the outcome of the executor
SavedCarriesOutcome ==
    /\ saved # None
    /\ "outcome" \in DOMAIN Get(saved)
    /\ Get(saved).outcome = Get(outcome)

\* C11 as claimed: the report is handed to save_report only after the gate and
\* the executor have run and the outcome has been attached, so that whenever an
\* executor was called the saved report holds its outcome.
C11_OutcomePersisted ==
    /\ SavedLast
    /\ (pc = "exited" /\ calls # <<>>) => SavedCarriesOutcome

\* the suggestion the typed menu line picks
Picked == suggestions[IntOf(Strip(Get(menuLine)))]

\* the pid typed at the pid prompt was asked for
AskedPid == Count("pid_prompt") > 0

\* C14: once a menu number i in 1..len(suggestions) is typed, the action taken
\* up is the i-th suggestion; the executor called after the yes is the one of
\* its action code; a kill_process suggestion that carries a pid hands that pid,
\* unchanged, to kill_process; and a pid is asked for only, and then exactly
\* once, when the picked suggestion is a kill_process that carries none.
C14_PickedIsExecuted ==
    (menuLine # None /\ PicksOneOf(Get(menuLine), Len(suggestions))) =>
        /\ action = Some(Picked)
        /\ calls # <<>> => calls = <<ExecutorOf(Picked.code)>>
        /\ (Picked.code = "kill_process" /\ Picked.data # None) =>
              /\ pid = Some(BoundPid(Get(Picked.data)))
              /\ ~AskedPid
        /\ AskedPid => Picked.code = "kill_process" /\ Picked.data = None
        /\ (Picked.code = "kill_process" /\ Picked.data = None) =>
              IF pc = "pid_prompt" THEN ~AskedPid /\ pid = None
              ELSE Count("pid_prompt") = 1 /\ pid # None /\ Get(pid).typed
        /\ Picked.code # "kill_process" => pid = None

C14_Witness ==
    /\ pc = "exited"
    /\ menuLine = Some(<<" ", "2", " ">>)
    /\ Len(suggestions) >= 3
    /\ suggestions[1].data = Some(1)
    /\ suggestions[2].data = Some(2)
    /\ pid = Some(BoundPid(2))
    /\ calls = <<"kill_process">>
    /\ answers = <<<<"y">>>>

\* a pid was typed because the picked suggestion carried none
C14_WitnessTyped ==
    /\ pc = "exited"
    /\ menuLine = Some(<<"1">>)
    /\ suggestions[1].code = "kill_process"
    /\ suggestions[1].data = None
    /\ pid = Some(TypedPid(<<"2">>))
    /\ calls = <<"kill_process">>

(***************************************************************************)
(* The rule engine on its own (specification SpecRules): a snapshot is     *)
(* taken of a process table with any sizes and any --top-processes count,  *)
(* and suggest_actions is applied to it.                                   *)
(***************************************************************************)
MaxRuleProcs == 4

RuleTopCounts == {0 - 1, 2, 3, 5}

RuleTables ==
    UNION {{[i \in 1..Cardinality(alive) |->
               [pid |-> SeqOfPids(alive)[i],
                name |-> CatalogueProc(SeqOfPids(alive)[i]).name,
                rss |-> size[SeqOfPids(alive)[i]]]] :
            size \in [alive -> RssVals]} :
           alive \in SUBSET (1..MaxRuleProcs)}

InitRules ==
    /\ psutil = TRUE
    /\ args \in [fix : {FALSE}, top_processes : RuleTopCounts]
    /\ procs \in RuleTables
    /\ files = {}
    /\ pc = "rules"
    /\ RunFresh

\* lines 458 and 464: the snapshot and the suggestions drawn from it
Evaluate ==
    /\ pc = "rules"
    /\ \E mem \in MemReadings, disks \in DiskReadings, fails \in BOOLEAN :
          /\ report' = run_checks(psutil, args, procs, mem, disks, fails)
          /\ suggestions' = suggest_actions(report')
    /\ pc' = "evaluated"
    /\ Step("suggest_actions")
    /\ UNCHANGED <<psutil, args, procs, files, menuLine, choice, action, pid,
                   days, answers, confirmed, calls, outcome, saved,
                   exitStatus, entry, prev>>

NextRules == Evaluate

SpecRules == InitRules /\ [][NextRules]_vars

\* the resident size of a process, 0 when it is not readable
RssOrZero(p) == IF p.rss = None THEN 0 ELSE Get(p.rss)

\* the place of process i of the table when ranked by size, largest first
Rank(i) ==
    1 + Cardinality({j \in 1..Len(procs) : RssOrZero(procs[j]) > RssOrZero(procs[i])})

DistinctSizes ==
    \A i, j \in 1..Len(procs) :
        i # j => RssOrZero(procs[i]) # RssOrZero(procs[j])

MemoryHigh ==
    /\ "memory" \in DOMAIN report
    /\ "percent" \in DOMAIN report.memory
    /\ report.memory.percent > 80

SnapshotHolds(n) ==
    /\ "top_processes" \in DOMAIN report
    /\ Len(report.top_processes) >= n
    /\ \A i \in 1..Len(report.top_processes) :
          "error" \notin DOMAIN report.top_processes[i]

Kills == SelectSeq(suggestions, LAMBDA x : x.code = "kill_process")

\* C5: when memory.percent is above 80 and the snapshot holds at least three
\* processes, all of distinct memory_rss, there are exactly three kill_process
\* suggestions, and the k-th carries the pid of the process with the k-th
\* largest memory_rss.
C5_TopThreeByMemory ==
    (pc = "evaluated" /\ MemoryHigh /\ SnapshotHolds(3) /\ DistinctSizes) =>
        /\ Len(Kills) = 3
        /\ \A k \in 1..3 :
              \E i \in 1..Len(procs) :
                  /\ Rank(i) = k
                  /\ Kills[k].data = Some(procs[i].pid)
                  /\ suggestions[k] = Kills[k]

C5_Witness ==
    /\ pc = "evaluated"
    /\ MemoryHigh
    /\ SnapshotHolds(4)
    /\ DistinctSizes
    /\ Len(procs) = 4
    /\ Rank(1) = 4
    /\ Rank(4) = 2
    /\ Len(Kills) = 3

(***************************************************************************)
(* The executors on their own: each is called, returns, and is called      *)
(* again on what it left behind (SpecKill, SpecClean, SpecStop).           *)
(***************************************************************************)
\* the call that has just returned, kept for the next one to look back on
Returned(arg) ==
    IF outcome = None THEN None
    ELSE Some([arg |-> arg, entry |-> Get(entry), outcome |-> Get(outcome)])

Called(executor) ==
    /\ pc \in {"idle", "return"}
    /\ pc' = executor
    /\ log' = <<>>
    /\ calls' = <<>>
    /\ outcome' = None
    /\ entry' = None

InitExecutor ==
    /\ psutil = TRUE
    /\ args = [fix |-> TRUE, top_processes |-> 5]
    /\ pc = "idle"
    /\ RunFresh

\* the pids kill_process may be handed: a number, or a typed text
KillArgs ==
    {BoundPid(n) : n \in 1..(MaxProcs + 1)} \cup {TypedPid(Strip(l)) : l \in PidInputs}

InitKill ==
    /\ InitExecutor
    /\ \E alive \in SUBSET Pids : procs = TableOf(alive)
    /\ files = {}

InvokeKill ==
    /\ Called("kill_process")
    /\ \E p \in KillArgs : pid' = Some(p)
    /\ prev' = Returned(pid)
    /\ UNCHANGED <<psutil, args, procs, files, report, suggestions, menuLine,
                   choice, action, days, answers, confirmed, saved,
                   exitStatus>>

NextKill ==
    \/ InvokeKill
    \/ KillLookup
    \/ KillTerminate
    \/ KillWait
    \/ KillForce
    \/ KillWaitForced
    \/ KillReturn

SpecKill == InitKill /\ [][NextKill]_vars

\* the thresholds clean_user_temp may be handed
CleanArgs == {0 - 1, 0, 3}

InitClean ==
    /\ InitExecutor
    /\ procs = <<>>
    /\ files \in SUBSET AllFiles

InvokeClean ==
    /\ Called("clean_user_temp")
    /\ \E d \in CleanArgs : days' = Some(d)
    /\ prev' = Returned(days)
    /\ UNCHANGED <<psutil, args, procs, files, report, suggestions, menuLine,
                   choice, action, pid, answers, confirmed, saved,
                   exitStatus>>

NextClean ==
    \/ InvokeClean
    \/ CleanUserTemp

SpecClean == InitClean /\ [][NextClean]_vars

\* process tables with any names
StopTables ==
    UNION {{[i \in 1..Cardinality(alive) |->
               [pid |-> SeqOfPids(alive)[i],
                name |-> names[SeqOfPids(alive)[i]],
                rss |-> Some(100)]] :
            names \in [alive -> ProcNames]} :
           alive \in SUBSET Pids}

InitStop ==
    /\ InitExecutor
    /\ procs \in StopTables
    /\ files = {}

\* one call: what a second call finds is a table InitStop starts from as well
InvokeStop ==
    /\ pc = "idle"
    /\ Called("stop_onedrive_processes")
    /\ prev' = Returned(None)
    /\ UNCHANGED <<psutil, args, procs, files, report, suggestions, menuLine,
                   choice, action, pid, days, answers, confirmed, saved,
                   exitStatus>>

NextStop ==
    \/ InvokeStop
    \/ StopOneDrive

SpecStop == InitStop /\ [][NextStop]_vars

(***************************************************************************)
(* Properties of kill_process (specification SpecKill).                    *)
(***************************************************************************)
PidsOf(table) == {table[i].pid : i \in 1..Len(table)}

\* the log ends with the steps of tail
EndsWith(tail) ==
    /\ Len(log) >= Len(tail)
    /\ SubSeq(log, Len(log) - Len(tail) + 1, Len(log)) = tail

\* the pid kill_process was handed names no process of the table it was called on
NotInTable ==
    \/ PidIsBad(Get(pid))
    \/ PidNumber(Get(pid)) \notin PidsOf(Get(entry).procs)

NotFound == [action |-> "kill_process", ok |-> FALSE, kind |-> "not_found"]

\* kill_process has returned
KillReturned == pc \in {"kill_return", "return"} /\ calls = <<"kill_process">>

\* the call before this one ended the process whose pid this call is handed
SamePidAgain ==
    /\ prev # None
    /\ Get(prev).outcome.ok
    /\ ~PidIsBad(Get(pid))
    /\ PidNumber(Get(Get(prev).arg)) = PidNumber(Get(pid))

\* C6: kill_process on a pid that is not in the process table returns the
\* not_found failure, always returns, sends no signal and ends no process; so a
\* second call on a pid the first call has ended returns not_found too.
C6_NotFound ==
    KillReturned =>
        /\ outcome # None
        /\ NotInTable =>
              /\ outcome = Some(NotFound)
              /\ Count("terminate") + Count("kill") = 0
              /\ procs = Get(entry).procs
        /\ SamePidAgain => outcome = Some(NotFound)

C6_Witness ==
    /\ pc = "kill_return"
    /\ SamePidAgain
    /\ Get(Get(prev).arg) = BoundPid(2)
    /\ Get(pid) = TypedPid(<<"2">>)
    /\ outcome = Some(NotFound)

\* C7: the forceful kill is sent only right after the graceful request was sent
\* and its wait timed out; nothing is sent after a not-found or access-denied
\* failure.  The outcome is "terminated" exactly when the process exited within
\* the graceful wait, "killed" exactly when it exited after the forceful kill,
\* and an access-denied failure is returned as such with no further attempt.
C7_Escalation ==
    /\ \A i \in 1..Len(log) :
          /\ log[i] = "kill" =>
                i >= 3 /\ log[i - 1] = "TimeoutExpired" /\ log[i - 2] = "terminate"
          /\ log[i] \in {"AccessDenied", "NoSuchProcess"} =>
                /\ i = Len(log)
                /\ KillReturned
                /\ ~Get(outcome).ok
    /\ KillReturned =>
          /\ Get(outcome).kind = "terminated" <=> EndsWith(<<"terminate", "exited">>)
          /\ Get(outcome).kind = "killed" <=>
                EndsWith(<<"terminate", "TimeoutExpired", "kill", "exited">>)
          /\ Get(outcome).kind = "access_denied" <=> EndsWith(<<"AccessDenied">>)
          /\ Get(outcome).ok <=> Get(outcome).kind \in {"terminated", "killed"}
          /\ NotInTable => Count("terminate") + Count("kill") = 0

C7_Witness ==
    /\ pc = "kill_return"
    /\ outcome = Some([action |-> "kill_process", ok |-> TRUE, kind |-> "killed"])
    /\ log = <<"kill_process", "terminate", "TimeoutExpired", "kill", "exited">>

(***************************************************************************)
(* Properties of clean_user_temp (specification SpecClean).                *)
(***************************************************************************)
\* the call was clean_user_temp(0) on files all older than now and all removable
AllOldAndRemovable(d, e) ==
    /\ d = Some(0)
    /\ e.failing = {}
    /\ \A f \in e.files : f.mtime < NOW

\* C8: clean_user_temp(0) on N files, all older than now and all removable,
\* removes all N and reports N; called again at once it reports 0.
C8_RoundTrip ==
    (pc = "return" /\ outcome # None) =>
        /\ AllOldAndRemovable(days, Get(entry)) =>
              /\ Get(outcome).deleted_files = Cardinality(Get(entry).files)
              /\ files = {}
        /\ (prev # None /\ days = Some(0)) =>
              (AllOldAndRemovable(Get(prev).arg, Get(prev).entry) =>
                  Get(outcome).deleted_files = 0)

C8_Witness ==
    /\ pc = "return"
    /\ outcome # None
    /\ prev # None
    /\ days = Some(0)
    /\ AllOldAndRemovable(Get(prev).arg, Get(prev).entry)
    /\ Cardinality(Get(prev).entry.files) = 3
    /\ Get(prev).outcome.deleted_files = 3
    /\ Get(outcome).deleted_files = 0

\* the sizes of a set of files, added up
RECURSIVE SumOfSizes(_)
SumOfSizes(S) ==
    IF S = {} THEN 0
    ELSE LET f == CHOOSE x \in S : TRUE IN f.size + SumOfSizes(S \ {f})

\* C13: a file on which stat or remove fails is passed over and the walk goes
\* on: every other file older than the cutoff is removed, the failed file stays
\* and is not counted, no file whose mtime is at or after the cutoff is removed,
\* and the count and the byte total returned are those of the files removed.
C13_SkipFailures ==
    (pc = "return" /\ outcome # None) =>
        LET before == Get(entry).files
            failed == Get(entry).failing
            cutoff == NOW - (Get(days) * 86400)
            gone == before \ files
        IN  /\ files \subseteq before
            /\ \A f \in before \ failed : f.mtime < cutoff => f \notin files
            /\ \A f \in failed : f \in files
            /\ \A f \in gone : f.mtime < cutoff
            /\ Get(outcome).deleted_files = Cardinality(gone)
            /\ Get(outcome).deleted_bytes = SumOfSizes(gone)

C13_Witness ==
    /\ pc = "return"
    /\ outcome # None
    /\ days = Some(0)
    /\ Get(entry).files = AllFiles
    /\ Get(entry).failing = {CatalogueFile(1)}
    /\ files = {CatalogueFile(1), CatalogueFile(4)}
    /\ Get(outcome).deleted_files = 2
    /\ Get(outcome).deleted_bytes = 25

(***************************************************************************)
(* Properties of stop_onedrive_processes (specification SpecStop).         *)
(***************************************************************************)
\* the names of ProcNames that begin with "onedrive" in some casing
OneDriveNames == {Some(N_OneDrive_exe), Some(N_ONEDRIVE)}

\* the pids of a table whose name is one of OneDriveNames, in the table's order
OneDrivePids(table) ==
    LET m == SelectSeq(table, LAMBDA p : p.name \in OneDriveNames)
    IN  [i \in 1..Len(m) |-> m[i].pid]

Range(f) == {f[i] : i \in DOMAIN f}
Firsts(pairs) == [i \in 1..Len(pairs) |-> pairs[i][1]]

\* C9: every process whose name begins with "onedrive" in any casing is sent
\* the request, whatever happened to the ones before it; each of them ends in
\* exactly one of stopped and failed, a failure as (pid, error); no other
\* process is touched; and with no such process both lists are empty and the
\* report is "No OneDrive processes found."
C9_BatchStop ==
    (pc = "return" /\ outcome # None) =>
        LET o == Get(outcome)
            before == Get(entry).procs
            matching == OneDrivePids(before)
        IN  /\ o.attempted = matching
            /\ \A p \in Range(matching) :
                  Cardinality({i \in 1..Len(o.stopped) : o.stopped[i][1] = p})
                  + Cardinality({i \in 1..Len(o.failed) : o.failed[i][1] = p}) = 1
            /\ Range(Firsts(o.stopped)) \cup Range(Firsts(o.failed)) = Range(matching)
            /\ \A i \in 1..Len(o.failed) :
                  o.failed[i][2] \in {"AccessDenied", "NoSuchProcess", "TimeoutExpired"}
            /\ \A i \in 1..Len(before) :
                  before[i].pid \notin Range(matching) =>
                      \E j \in 1..Len(procs) : procs[j] = before[i]
            /\ \A i \in 1..Len(o.stopped) : o.stopped[i][1] \notin PidsOf(procs)
            /\ matching = <<>> =>
                  /\ o.stopped = <<>>
                  /\ o.failed = <<>>
                  /\ o.printed = {"No OneDrive processes found."}
            /\ "No OneDrive processes found." \in o.printed => matching = <<>>

C9_Witness ==
    /\ pc = "return"
    /\ outcome # None
    /\ Len(Get(entry).procs) = 3
    /\ OneDrivePids(Get(entry).procs) = <<1, 3>>
    /\ Get(outcome).failed = <<<<1, "TimeoutExpired">>>>
    /\ Get(outcome).stopped = <<<<3, Some(N_ONEDRIVE)>>>>
    /\ PidsOf(procs) = {1, 2}

(***************************************************************************)
(* summarize_report (ticket_export.py:15-31) on its own (specification     *)
(* SpecSummary): a report is read back from the JSON file, with any of its *)
(* sections present or missing, and the ticket summary is made of it.      *)
(***************************************************************************)
H_testhost == <<"t","e","s","t","h","o","s","t">>
T_stamp == <<"2","0","2","5","-","0","8","-","2","9">>
V_python == <<"3",".","1","0">>
T_None == <<"N","o","n","e">>

\* collect_system_info(): every field is always there
SystemReadings ==
    {[timestamp |-> T_stamp, hostname |-> H_testhost, python_version |-> V_python]}

\* cpu_info(): a reading, or the error dict of its except branch
CpuReadings == {[cpu_percent_overall |-> 10], [error |-> TRUE]}

\* the lists top_processes() may have put into the report
SummaryTops ==
    {top_processes(TableOf(alive), n, fails) :
        alive \in SUBSET Pids, n \in TopCounts, fails \in BOOLEAN}

SectionNames == {"system", "cpu", "memory", "disks", "top_processes"}

\* the reports a run may have written: the sections of run_checks, any of them
\* missing (helpdesk_logging.py writes no "system" and stops at the first
\* failure), and the dict run_checks returns when psutil is missing
SummaryReports ==
    {ProviderError} \cup
    UNION {{[k \in present |-> full[k]] : present \in SUBSET SectionNames} :
           full \in [system : SystemReadings,
                     cpu : CpuReadings,
                     memory : MemReadings,
                     disks : DiskReadings \cup {<<>>},
                     top_processes : SummaryTops]}

\* str(n) of a natural number
RECURSIVE StrOfNat(_)
StrOfNat(n) ==
    IF n < 10 THEN <<DigitChars[n + 1]>>
    ELSE StrOfNat(n \div 10) \o <<DigitChars[(n % 10) + 1]>>

\* how an f-string renders p.get('name'): the text, or None
FormatName(o) == IF o = None THEN T_None ELSE Get(o)

\* how an f-string renders p.get('pid'): the digits, or None
FormatPid(o) == IF o = None THEN T_None ELSE StrOfNat(Get(o))

\* line 22: f"{p.get('name')} (pid {p.get('pid')})"
FormatEntry(p) ==
    FormatName(EGet(p, "name")) \o <<" ", "(", "p", "i", "d", " ">>
    \o FormatPid(EGet(p, "pid")) \o <<")">>

\* sep.join(parts)
RECURSIVE Join(_, _)
Join(sep, parts) ==
    IF parts = <<>> THEN <<>>
    ELSE IF Len(parts) = 1 THEN parts[1]
    ELSE parts[1] \o sep \o Join(sep, Tail(parts))

\* a join that keeps the first entry only
TopNames_first_only(top) ==
    IF top = <<>> THEN <<>> ELSE FormatEntry(top[1])

\* line 22: "; ".join([... for p in top])
TopNames(top) ==
    Join(<<";", " ">>, [i \in 1..Len(top) |-> FormatEntry(top[i])])

\* line 21: disks[0].get("percent") if disks else ""
DiskPercent(disks) ==
    IF disks # <<>> THEN [empty_text |-> FALSE, value |-> DGet(disks[1], "percent")]
    ELSE [empty_text |-> TRUE, value |-> None]

summarize_report(rep) ==
    LET sys_info == RGet(rep, "system", EmptyDict)
        mem == RGet(rep, "memory", EmptyDict)
        cpu == RGet(rep, "cpu", EmptyDict)
        disks == RGet(rep, "disks", <<>>)
        top == RGet(rep, "top_processes", <<>>)
    IN  [timestamp |-> DGet(sys_info, "timestamp"),
         host |-> DGet(sys_info, "hostname"),
         python_version |-> DGet(sys_info, "python_version"),
         memory_percent |-> DGet(mem, "percent"),
         cpu_percent_overall |-> DGet(cpu, "cpu_percent_overall"),
         disk_percent |-> DiskPercent(disks),
         top_processes |-> TopNames(top)]

InitSummary ==
    /\ psutil = TRUE
    /\ args = [fix |-> FALSE, top_processes |-> 5]
    /\ procs = <<>>
    /\ files = {}
    /\ pc = "report_read"
    /\ report \in SummaryReports
    /\ suggestions = <<>>
    /\ menuLine = None
    /\ choice = None
    /\ action = None
    /\ pid = None
    /\ days = None
    /\ answers = <<>>
    /\ confirmed = ""
    /\ calls = <<>>
    /\ log = <<>>
    /\ outcome = None
    /\ entry = None
    /\ prev = None
    /\ saved = None
    /\ exitStatus = None

\* ticket_export.py:47: summary = summarize_report(rep)
Summarize ==
    /\ pc = "report_read"
    /\ outcome' = Some(summarize_report(report))
    /\ pc' = "summarized"
    /\ Step("summarize_report")
    /\ UNCHANGED <<psutil, args, procs, files, report, suggestions, menuLine,
                   choice, action, pid, days, answers, confirmed, calls,
                   saved, exitStatus, entry, prev>>

NextSummary == Summarize

SpecSummary == InitSummary /\ [][NextSummary]_vars

\* the text sub occurs in the text s
Contains(s, sub) ==
    \E i \in 1..(Len(s) - Len(sub) + 1) : SubSeq(s, i, i + Len(sub) - 1) = sub

\* the field of a section of the report, None when the section or the field is
\* missing
FieldOf(r, section, field) ==
    IF section \notin DOMAIN r THEN None
    ELSE IF field \notin DOMAIN r[section] THEN None
    ELSE Some(r[section][field])

SummaryKeys == {"timestamp", "host", "python_version", "memory_percent",
                "cpu_percent_overall", "disk_percent", "top_processes"}

\* C12: summarize_report returns a summary for every report; its host is
\* system.hostname and its memory_percent is memory.percent, None when the
\* section or the field is missing; its top_processes text holds the name of
\* every entry of top_processes that has one, and is empty when there is no
\* entry or no such section; disk_percent is the empty text when there is no
\* disk or no such section.
C12_Summary ==
    pc = "summarized" =>
        LET sm == Get(outcome)
        IN  /\ outcome # None
            /\ DOMAIN sm = SummaryKeys
            /\ sm.host = FieldOf(report, "system", "hostname")
            /\ sm.memory_percent = FieldOf(report, "memory", "percent")
            /\ "top_processes" \in DOMAIN report =>
                  /\ \A i \in 1..Len(report.top_processes) :
                        LET p == report.top_processes[i]
                        IN  ("name" \in DOMAIN p /\ p.name # None) =>
                                Contains(sm.top_processes, Get(p.name))
                  /\ report.top_processes = <<>> => sm.top_processes = <<>>
            /\ "top_processes" \notin DOMAIN report => sm.top_processes = <<>>
            /\ ("disks" \notin DOMAIN report \/ report.disks = <<>>) <=>
                  sm.disk_percent.empty_text

C12_Witness ==
    /\ pc = "summarized"
    /\ DOMAIN report = {"system", "cpu", "disks", "top_processes"}
    /\ Len(report.top_processes) = 3
    /\ Get(outcome).host = Some(H_testhost)
    /\ Get(outcome).memory_percent = None
    /\ Contains(Get(outcome).top_processes, N_chrome \o <<" ","(","p","i","d"," ","1",")">>)
    /\ Contains(Get(outcome).top_processes,
                <<";", " ">> \o N_explorer \o <<" ","(","p","i","d"," ","3",")">>)

====
